---- MODULE Spec2Model ----
(***************************************************************************)
(* Flash-card quiz (flash_cards.py): subset selection with and without     *)
(* replacement, the round generator, the answer matcher and the keyboard   *)
(* handler of class Game.                                                  *)
(*                                                                         *)
(* A Python str is a sequence of one-character strings.  Control           *)
(* characters are written in caret notation ("^H" backspace, "^?" delete,  *)
(* "^[" escape) and each stands for one character below code point 32 or   *)
(* at 127; "grave" stands for the grave accent, code point 96.             *)
(***************************************************************************)
EXTENDS Integers, Sequences, FiniteSets, TLC

(***************************************************************************)
(* Bounds of the model.                                                    *)
(***************************************************************************)
\* number of directory entries of the largest directory tried
MaxFiles == 4
\* number of directory entries of the largest directory with a sol_map.json
MaxMapFiles == 3
\* longest text buffer the typist builds
MaxLen == 2
\* longest answer of a generated sol_map.json entry list
MaxEntryLen == 1
\* depth at which the interpreter gives up a runaway recursion
RecursionLimit == 3

(***************************************************************************)
(* Characters and the str methods the program uses.                        *)
(***************************************************************************)
\* the printable ASCII characters, code points 32..126, in order
Ascii ==
  << " ", "!", "\"", "#", "$", "%", "&", "'", "(", ")", "*", "+", ",", "-",
     ".", "/", "0", "1", "2", "3", "4", "5", "6", "7", "8", "9", ":", ";",
     "<", "=", ">", "?", "@", "A", "B", "C", "D", "E", "F", "G", "H", "I",
     "J", "K", "L", "M", "N", "O", "P", "Q", "R", "S", "T", "U", "V", "W",
     "X", "Y", "Z", "[", "\\", "]", "^", "_", "grave", "a", "b", "c", "d", "e",
     "f", "g", "h", "i", "j", "k", "l", "m", "n", "o", "p", "q", "r", "s",
     "t", "u", "v", "w", "x", "y", "z", "{", "|", "}", "~" >>

Printable == {Ascii[i] : i \in 1..Len(Ascii)}

\* code point of a printable character
ord == [c \in Printable |-> 31 + (CHOOSE i \in 1..Len(Ascii) : Ascii[i] = c)]

\* str.lower() on one character: A-Z (65..90) map to a-z, the rest stay
lower_char ==
  [c \in Printable |-> IF ord[c] \in 65..90 THEN Ascii[ord[c] + 32 - 31] ELSE c]

lower_identity(s) == s

\* str.lower()
lower(s) ==
  [i \in 1..Len(s) |-> IF s[i] \in Printable THEN lower_char[s[i]] ELSE s[i]]

IsSpace(c) == c = " "

NotSpace(c) == ~IsSpace(c)

\* s.replace(" ", "")
remove_spaces(s) == SelectSeq(s, NotSpace)

\* s.endswith(suffix)
endswith(s, suffix) ==
  /\ Len(s) >= Len(suffix)
  /\ SubSeq(s, Len(s) - Len(suffix) + 1, Len(s)) = suffix

\* s.removesuffix(suffix)
removesuffix(s, suffix) ==
  IF endswith(s, suffix) THEN SubSeq(s, 1, Len(s) - Len(suffix)) ELSE s

PNG == << ".", "p", "n", "g" >>

\* Game.VALID_CHARS = r"[a-zA-z0-9 -]": the ranges a-z, A-z and 0-9 by code
\* point, the space and the hyphen
VALID_CHARS(c) ==
  /\ c \in Printable
  /\ \/ ord[c] \in ord["a"]..ord["z"]
     \/ ord[c] \in ord["A"]..ord["z"]
     \/ ord[c] \in ord["0"]..ord["9"]
     \/ c = " "
     \/ c = "-"

\* re.match(Game.VALID_CHARS, s): the class must match the first character
match(s) == Len(s) > 0 /\ VALID_CHARS(s[1])

(***************************************************************************)
(* Sequences.                                                              *)
(***************************************************************************)
SetOf(s) == {s[i] : i \in 1..Len(s)}

RemoveAt_keeping(s, i) == s

\* list.pop(i) leaves the list without its element i (1-based here)
RemoveAt(s, i) == SubSeq(s, 1, i - 1) \o SubSeq(s, i + 1, Len(s))

shuffle_with_repeats(s) ==
  LET n == Len(s)
  IN  {[i \in 1..n |-> s[p[i]]] : p \in [1..n -> 1..n]}

\* random.shuffle: every arrangement of the list
shuffle(s) ==
  LET n == Len(s)
      Perm == {p \in [1..n -> 1..n] : \A i, j \in 1..n : p[i] = p[j] => i = j}
  IN  {[i \in 1..n |-> s[p[i]]] : p \in Perm}

(***************************************************************************)
(* The directories tried.                                                  *)
(***************************************************************************)
AllFiles ==
  << << "a", ".", "p", "n", "g" >>,
     << "n", "o", "t", "e", "s", ".", "t", "x", "t" >>,
     << "A", " ", "a", ".", "p", "n", "g" >>,
     << " ", ".", "p", "n", "g" >>,
     << "_", "a", ".", "p", "n", "g" >> >>

SOL_MAP_JSON ==
  << "s", "o", "l", "_", "m", "a", "p", ".", "j", "s", "o", "n" >>

\* contents of sol_map.json: lowercase base name -> list of accepted answers
FullMap ==
  (<< "a" >> :> << << "a" >>, << "_", " ", "_" >> >>)
  @@ (<< "a", " ", "a" >> :> << << "_" >> >>)
  @@ (<< " " >> :> << << "a", "_" >>, << >> >>)
  @@ (<< "_", "a" >> :> << << "A", " " >> >>)

\* a map that lacks the entries of every image but a.png
PartialMap == (<< "a" >> :> << << "A" >>, << "a", " ", "_" >> >>)

NoMap == [k \in {} |-> << >>]

Prefix(n) == SubSeq(AllFiles, 1, IF n < Len(AllFiles) THEN n ELSE Len(AllFiles))

\* directories without sol_map.json, and smaller ones with either map
Directories ==
  { [files |-> Prefix(n), has_sol_map |-> FALSE, sol_map |-> NoMap] :
      n \in 0..MaxFiles }
  \cup
  { [files |-> Prefix(n), has_sol_map |-> TRUE, sol_map |-> m] :
      n \in 0..MaxMapFiles, m \in {FullMap, PartialMap} }

\* os.listdir(directory)
listdir(d) ==
  d.files \o (IF d.has_sol_map THEN << SOL_MAP_JSON >> ELSE << >>)

\* os.path.exists(join(directory, "sol_map.json"))
exists_sol_map(d) == SOL_MAP_JSON \in SetOf(listdir(d))

IsPng(f) == endswith(f, PNG)

\* the command lines tried: directory, -s/--subset-size, --no-replacement
Args ==
  { [directory |-> d, subset_size |-> s, no_replacement |-> b] :
      d \in Directories, s \in (-1)..MaxFiles, b \in BOOLEAN }

(***************************************************************************)
(* State.                                                                  *)
(***************************************************************************)
VARIABLES
  pc,            \* "start", "run", "quit", "exit" (pool exhausted),
                 \* "assert" (startup assertion), "error" (uncaught exception)
  args,          \* the parsed command line
  image_files,   \* Game.image_files: the pool of image file names
  has_solmap,    \* Game.has_solmap
  sol_map,       \* Game.sol_map
  _subset,       \* Game._subset: the images of the current subset
  subset,        \* Game.subset: how many images the generator has yielded
  subset_size,   \* Game.subset_size
  score,         \* Game.score
  reveal,        \* Game.reveal
  text,          \* Game.text
  img,           \* Game.img
  select_subset, \* Game.select_subset: the bound policy method
  seen,          \* history: images of the subsets drawn before the current one
  last,          \* history: the event handled last and what it did
  log            \* history, kept while log.on: the number of subsets drawn and
                 \* the images displayed, in the order of display

vars ==
  << pc, args, image_files, has_solmap, sol_map, _subset, subset, subset_size,
     score, reveal, text, img, select_subset, seen, last, log >>

NoImage == [surface |-> << >>, name |-> << >>]

\* history record: the branch of the program that ran last ("init", "quit",
\* "return", "delete", "backspace", "text", "other"), the matcher's verdict
\* there, and how the round moved (adv: "none", "next" image of the pass,
\* "restart" of the pass, "new" subset, "exit")
Last(branch, correct, adv) ==
  [branch |-> branch, correct |-> correct, adv |-> adv]

\* the Game object as one record
Self ==
  [pc |-> pc, image_files |-> image_files, _subset |-> _subset,
   subset |-> subset, subset_size |-> subset_size, score |-> score,
   reveal |-> reveal, text |-> text, img |-> img,
   select_subset |-> select_subset, seen |-> seen, adv |-> "none"]

\* the history of draws and displays is not kept
NoLog == [on |-> FALSE, drawn |-> 0, shown |-> << >>]

\* the history after the call that left the Game record g: next_image has
\* displayed g.img, after select_subset drew a subset when g.adv = "new"
Record(g) ==
  IF log.on /\ g.pc = "run" /\ g.adv # "none"
  THEN [log EXCEPT !.drawn = IF g.adv = "new" THEN @ + 1 ELSE @,
                   !.shown = Append(@, g.img)]
  ELSE log

\* assignment of a Game record to the state
Becomes(g) ==
  /\ pc' = g.pc
  /\ image_files' = g.image_files
  /\ _subset' = g._subset
  /\ subset' = g.subset
  /\ subset_size' = g.subset_size
  /\ score' = g.score
  /\ reveal' = g.reveal
  /\ text' = g.text
  /\ img' = g.img
  /\ select_subset' = g.select_subset
  /\ seen' = g.seen
  /\ log' = Record(g)

\* the state before Game.__init__, history aside
InitGame ==
  /\ pc = "start"
  /\ args \in Args
  /\ image_files = << >>
  /\ has_solmap = FALSE
  /\ sol_map = NoMap
  /\ _subset = << >>
  /\ subset = 0
  /\ subset_size = 0
  /\ score = 0
  /\ reveal = FALSE
  /\ text = << >>
  /\ img = NoImage
  /\ select_subset = "unbound"
  /\ seen = {}
  /\ last = Last("none", FALSE, "none")

Init ==
  /\ InitGame
  /\ log = NoLog

(***************************************************************************)
(* Subset selection and the round generator.                               *)
(***************************************************************************)
\* the scaled bitmap of an image file
load_img(img_file) == [bitmap_of |-> img_file]

\* Image(surf, img_file.removesuffix(".png"))
create_img_obj(img_file) ==
  [surface |-> load_img(img_file), name |-> removesuffix(img_file, PNG)]

\* [create_img_obj(image_files.pop(randint(0, len-1))) for _ in range(k)]:
\* every list of images the k pops can produce, with the pool they leave
RECURSIVE pop_random(_, _), pop_random_one_more(_, _)

pop_random_one_more(files, k) ==
  IF k < 0 \/ Len(files) = 0
  THEN {[images |-> << >>, image_files |-> files]}
  ELSE UNION { { [images |-> << create_img_obj(files[i]) >> \o r.images,
                  image_files |-> r.image_files] :
                   r \in pop_random_one_more(RemoveAt(files, i), k - 1) } :
               i \in 1..Len(files) }

pop_random(files, k) ==
  IF k <= 0
  THEN {[images |-> << >>, image_files |-> files]}
  ELSE UNION { { [images |-> << create_img_obj(files[i]) >> \o r.images,
                  image_files |-> r.image_files] :
                   r \in pop_random(RemoveAt(files, i), k - 1) } :
               i \in 1..Len(files) }

RECURSIVE sample_distinct(_, _, _, _), sample_short(_, _, _, _)

sample_short(files, size, sub, contains) ==
  IF ~(Len(sub) + 1 < size)
  THEN {sub}
  ELSE UNION { sample_short(files, size,
                            Append(sub, create_img_obj(files[i])),
                            contains \cup {i}) :
               i \in (1..Len(files)) \ contains }

sample_any(files, size, sub, contains) ==
  IF ~(Len(sub) < size)
  THEN {sub}
  ELSE UNION { sample_distinct(files, size,
                               Append(sub, create_img_obj(files[i])),
                               contains \cup {i}) :
               i \in 1..Len(files) }

\* the while loop of select_subset_with_rep: an index already in `contains`
\* is drawn again, any other index appends its image
sample_distinct(files, size, sub, contains) ==
  IF ~(Len(sub) < size)
  THEN {sub}
  ELSE UNION { sample_distinct(files, size,
                               Append(sub, create_img_obj(files[i])),
                               contains \cup {i}) :
               i \in (1..Len(files)) \ contains }

\* a new generator over _subset; its first next() shuffles the list, and the
\* program calls next() right after creating it
subset_gen(g) == {[g EXCEPT !._subset = p, !.subset = 0] : p \in shuffle(g._subset)}

\* an exception unwinds the handler: the statements after the call are skipped
RecursionError(g) == [g EXCEPT !.pc = "error"]

RECURSIVE next_image(_, _), select_subset_no_rep(_, _),
          select_subset_with_rep(_, _)

imperfect_off_by_one(g) == g.score + 1 < g.subset_size

imperfect_always(g) == g.score <= g.subset_size

\* the test of next_image: self.score < self.subset_size
imperfect(g) == g.score < g.subset_size

call_select_subset_with_rep_only(g, depth) == select_subset_with_rep(g, depth)

\* self.select_subset(): the method bound in __init__
call_select_subset(g, depth) ==
  IF g.select_subset = "select_subset_no_rep"
  THEN select_subset_no_rep(g, depth)
  ELSE select_subset_with_rep(g, depth)

next_image(g, depth) ==
  IF depth > RecursionLimit
  THEN {RecursionError(g)}
  ELSE IF g.subset < Len(g._subset)
  THEN \* next(self.subset) is an image
       {[g EXCEPT !.subset = @ + 1,
                  !.img = g._subset[g.subset + 1],
                  !.text = << >>,
                  !.reveal = FALSE,
                  !.adv = IF @ = "none" THEN "next" ELSE @]}
  ELSE \* next(self.subset) is None
       LET after ==
             IF imperfect(g)
             THEN UNION { next_image([h EXCEPT !.adv = "restart"], depth + 1) :
                          h \in subset_gen(g) }
             ELSE call_select_subset(g, depth + 1)
       IN  { IF r.pc = "run"
             THEN [r EXCEPT !.score = 0, !.text = << >>, !.reveal = FALSE]
             ELSE r : r \in after }

select_subset_no_rep_exits_early(g, depth) ==
  IF depth > RecursionLimit THEN {RecursionError(g)}
  ELSE IF Len(g.image_files) < g.subset_size \/ Len(g.image_files) = 0
  THEN {[g EXCEPT !.pc = "exit", !.adv = "exit"]}
  ELSE UNION { UNION { next_image(h, depth + 1) :
                       h \in subset_gen([g EXCEPT !._subset = r.images,
                               !.image_files = r.image_files, !.seen = g.seen \cup SetOf(g._subset),
                               !.adv = "new"]) } :
               r \in pop_random(g.image_files, g.subset_size) }

select_subset_no_rep_keeps_size(g, depth) ==
  IF depth > RecursionLimit THEN {RecursionError(g)}
  ELSE IF Len(g.image_files) = 0 THEN {[g EXCEPT !.pc = "exit", !.adv = "exit"]}
  ELSE LET size == IF Len(g.image_files) < g.subset_size THEN Len(g.image_files) ELSE g.subset_size
       IN  UNION { UNION { next_image(h, depth + 1) :
                           h \in subset_gen([g EXCEPT !._subset = r.images,
                                   !.image_files = r.image_files, !.seen = g.seen \cup SetOf(g._subset),
                                   !.adv = "new"]) } :
                   r \in pop_random(g.image_files, size) }

select_subset_no_rep(g, depth) ==
  IF depth > RecursionLimit
  THEN {RecursionError(g)}
  ELSE IF Len(g.image_files) = 0
  THEN {[g EXCEPT !.pc = "exit", !.adv = "exit"]}
  ELSE LET size == IF Len(g.image_files) < g.subset_size
                   THEN Len(g.image_files)
                   ELSE g.subset_size
       IN  UNION { UNION { next_image(h, depth + 1) :
                           h \in subset_gen([g EXCEPT
                                   !.subset_size = size,
                                   !._subset = r.images,
                                   !.image_files = r.image_files,
                                   !.seen = g.seen \cup SetOf(g._subset),
                                   !.adv = "new"]) } :
                   r \in pop_random(g.image_files, size) }

select_subset_with_rep(g, depth) ==
  IF depth > RecursionLimit
  THEN {RecursionError(g)}
  ELSE UNION { UNION { next_image(h, depth + 1) :
                       h \in subset_gen([g EXCEPT
                               !._subset = sub,
                               !.seen = g.seen \cup SetOf(g._subset),
                               !.adv = "new"]) } :
               sub \in sample_distinct(g.image_files, g.subset_size, << >>, {}) }

(***************************************************************************)
(* Game.__init__                                                           *)
(***************************************************************************)
\* Game._get_sol_map: the parsed sol_map.json, or None
_get_sol_map(d) == IF exists_sol_map(d) THEN d.sol_map ELSE NoMap

GameInit_strict_assert ==
  /\ pc = "start"
  /\ LET files == SelectSeq(listdir(args.directory), IsPng)
         g0 == [pc |-> "run", image_files |-> files, _subset |-> << >>,
                subset |-> 0, subset_size |-> args.subset_size, score |-> 0,
                reveal |-> FALSE, text |-> << >>, img |-> NoImage,
                select_subset |-> "unbound", seen |-> {}, adv |-> "none"]
         g1 == [g0 EXCEPT !.select_subset =
                  IF args.no_replacement THEN "select_subset_no_rep"
                                         ELSE "select_subset_with_rep"]
     IN  /\ has_solmap' = exists_sol_map(args.directory)
         /\ sol_map' = _get_sol_map(args.directory)
         /\ IF ~(args.subset_size < Len(files))
            THEN /\ Becomes([g0 EXCEPT !.pc = "assert"])
                 /\ last' = Last("init", FALSE, "none")
            ELSE \E r \in call_select_subset(g1, 1) :
                   /\ Becomes(r)
                   /\ last' = Last("init", FALSE, r.adv)
  /\ UNCHANGED args

GameInit ==
  /\ pc = "start"
  /\ LET files == SelectSeq(listdir(args.directory), IsPng)
         g0 == [pc |-> "run", image_files |-> files, _subset |-> << >>,
                subset |-> 0, subset_size |-> args.subset_size, score |-> 0,
                reveal |-> FALSE, text |-> << >>, img |-> NoImage,
                select_subset |-> "unbound", seen |-> {}, adv |-> "none"]
         g1 == [g0 EXCEPT !.select_subset =
                  IF args.no_replacement THEN "select_subset_no_rep"
                                         ELSE "select_subset_with_rep"]
     IN  /\ has_solmap' = exists_sol_map(args.directory)
         /\ sol_map' = _get_sol_map(args.directory)
         /\ IF ~(args.subset_size <= Len(files))
            THEN /\ Becomes([g0 EXCEPT !.pc = "assert"])
                 /\ last' = Last("init", FALSE, "none")
            ELSE \E r \in call_select_subset(g1, 1) :
                   /\ Becomes(r)
                   /\ last' = Last("init", FALSE, r.adv)
  /\ UNCHANGED args

(***************************************************************************)
(* Game.is_correct                                                         *)
(***************************************************************************)
\* self.sol_map[self.img.name.lower()] raises KeyError
KeyError(self_img, self_has_solmap, self_sol_map) ==
  self_has_solmap /\ lower(self_img.name) \notin DOMAIN self_sol_map

is_correct_raw_entries(self_text, self_img, self_has_solmap, self_sol_map) ==
  LET txt == lower(remove_spaces(self_text))
  IN  IF self_has_solmap
      THEN LET sols == self_sol_map[lower(self_img.name)]
           IN  IF self_text \in SetOf(sols)
               THEN TRUE
               ELSE \E i \in 1..Len(sols) : sols[i] = txt
      ELSE txt = lower(remove_spaces(self_img.name))

is_correct_text_not_lowered(self_text, self_img, self_has_solmap, self_sol_map) ==
  LET txt == remove_spaces(self_text)
  IN  IF self_has_solmap
      THEN LET sols == self_sol_map[lower(self_img.name)]
           IN  IF self_text \in SetOf(sols)
               THEN TRUE
               ELSE \E i \in 1..Len(sols) : lower(remove_spaces(sols[i])) = txt
      ELSE txt = lower(remove_spaces(self_img.name))

is_correct(self_text, self_img, self_has_solmap, self_sol_map) ==
  LET txt == lower(remove_spaces(self_text))
  IN  IF self_has_solmap
      THEN LET sols == self_sol_map[lower(self_img.name)]
           IN  IF self_text \in SetOf(sols)
               THEN TRUE
               ELSE \E i \in 1..Len(sols) : lower(remove_spaces(sols[i])) = txt
      ELSE txt = lower(remove_spaces(self_img.name))

(***************************************************************************)
(* Game.poll_events: one event of the queue                                *)
(***************************************************************************)
KEYDOWN(key, unicode) == [type |-> "KEYDOWN", key |-> key, unicode |-> unicode]

\* the characters the typist's keys produce
TypedChars == {"a", " ", "_", "!"}

Events ==
  { [type |-> "QUIT", key |-> "NONE", unicode |-> << >>],
    [type |-> "MOUSEMOTION", key |-> "NONE", unicode |-> << >>],
    KEYDOWN("K_ESCAPE", << "^[" >>),
    KEYDOWN("K_RETURN", << "\r" >>),
    KEYDOWN("K_DELETE", << "^?" >>),
    KEYDOWN("K_BACKSPACE", << "^H" >>),
    KEYDOWN("K_LSHIFT", << >>) }
  \cup { KEYDOWN("K_char", << c >>) : c \in TypedChars }

IsQuit(event) ==
  \/ event.type = "QUIT"
  \/ (event.type = "KEYDOWN" /\ event.key = "K_ESCAPE")

\* the handler dies with the exception; the state stays as it was then
Raise(g, branch) ==
  /\ Becomes([g EXCEPT !.pc = "error"])
  /\ last' = Last(branch, FALSE, "none")

Correct_unscored(g, branch) ==
  \E r \in next_image(g, 1) :
    /\ Becomes(r)
    /\ last' = Last(branch, TRUE, r.adv)

\* self.score += 1; self.next_image()
Correct(g, branch) ==
  \E r \in next_image([g EXCEPT !.score = @ + 1], 1) :
    /\ Becomes(r)
    /\ last' = Last(branch, TRUE, r.adv)

Skip_scoring(g, branch) ==
  \E r \in next_image([g EXCEPT !.score = @ + 1], 1) :
    /\ Becomes(r)
    /\ last' = Last(branch, FALSE, r.adv)

\* the branch `elif self.reveal`: self.next_image()
Skip(g, branch) ==
  \E r \in next_image(g, 1) :
    /\ Becomes(r)
    /\ last' = Last(branch, FALSE, r.adv)

OnQuit(event) ==
  /\ pc = "run"
  /\ IsQuit(event)
  /\ pc' = "quit"
  /\ last' = Last("quit", FALSE, "none")
  /\ UNCHANGED << args, image_files, has_solmap, sol_map, _subset, subset,
                  subset_size, score, reveal, text, img, select_subset, seen,
                  log >>

OnReturn_reveal_first(event) ==
  /\ pc = "run"
  /\ ~IsQuit(event)
  /\ event.type = "KEYDOWN"
  /\ event.key = "K_RETURN"
  /\ IF KeyError(img, has_solmap, sol_map)
     THEN Raise(Self, "return")
     ELSE IF reveal
     THEN Skip(Self, "return")
     ELSE IF is_correct(text, img, has_solmap, sol_map)
     THEN Correct(Self, "return")
     ELSE /\ Becomes([Self EXCEPT !.reveal = TRUE])
          /\ last' = Last("return", FALSE, "none")
  /\ UNCHANGED << args, has_solmap, sol_map >>

OnReturn(event) ==
  /\ pc = "run"
  /\ ~IsQuit(event)
  /\ event.type = "KEYDOWN"
  /\ event.key = "K_RETURN"
  /\ IF KeyError(img, has_solmap, sol_map)
     THEN Raise(Self, "return")
     ELSE IF is_correct(text, img, has_solmap, sol_map)
     THEN Correct(Self, "return")
     ELSE IF reveal
     THEN Skip(Self, "return")
     ELSE /\ Becomes([Self EXCEPT !.reveal = TRUE])
          /\ last' = Last("return", FALSE, "none")
  /\ UNCHANGED << args, has_solmap, sol_map >>

OnDelete(event) ==
  /\ pc = "run"
  /\ ~IsQuit(event)
  /\ event.type = "KEYDOWN"
  /\ event.key # "K_RETURN"
  /\ event.key = "K_DELETE"
  /\ Becomes([Self EXCEPT !.text = << >>])
  /\ last' = Last("delete", FALSE, "none")
  /\ UNCHANGED << args, has_solmap, sol_map >>

OnBackspace(event) ==
  /\ pc = "run"
  /\ ~IsQuit(event)
  /\ event.type = "KEYDOWN"
  /\ event.key \notin {"K_RETURN", "K_DELETE"}
  /\ event.key = "K_BACKSPACE" /\ Len(text) > 0
  /\ Becomes([Self EXCEPT !.text = SubSeq(text, 1, Len(text) - 1)])
  /\ last' = Last("backspace", FALSE, "none")
  /\ UNCHANGED << args, has_solmap, sol_map >>

OnText(event) ==
  /\ pc = "run"
  /\ ~IsQuit(event)
  /\ event.type = "KEYDOWN"
  /\ event.key \notin {"K_RETURN", "K_DELETE"}
  /\ ~(event.key = "K_BACKSPACE" /\ Len(text) > 0)
  /\ match(event.unicode)
  /\ Len(text) < MaxLen
  /\ LET g == [Self EXCEPT !.text = text \o event.unicode]
     IN  IF KeyError(img, has_solmap, sol_map)
         THEN Raise(g, "text")
         ELSE IF is_correct(g.text, img, has_solmap, sol_map)
         THEN Correct(g, "text")
         ELSE /\ Becomes(g)
              /\ last' = Last("text", FALSE, "none")
  /\ UNCHANGED << args, has_solmap, sol_map >>

\* no branch of the handler takes the event
OnOther(event) ==
  /\ pc = "run"
  /\ ~IsQuit(event)
  /\ \/ event.type # "KEYDOWN"
     \/ /\ event.key \notin {"K_RETURN", "K_DELETE"}
        /\ ~(event.key = "K_BACKSPACE" /\ Len(text) > 0)
        /\ ~match(event.unicode)
  /\ last' = Last("other", FALSE, "none")
  /\ UNCHANGED << pc, args, image_files, has_solmap, sol_map, _subset, subset,
                  subset_size, score, reveal, text, img, select_subset, seen,
                  log >>

poll_events ==
  \E event \in Events :
    \/ OnQuit(event)
    \/ OnReturn(event)
    \/ OnDelete(event)
    \/ OnBackspace(event)
    \/ OnText(event)
    \/ OnOther(event)

Next == GameInit \/ poll_events

Spec == Init /\ [][Next]_vars

TypeOK ==
  /\ pc \in {"start", "run", "quit", "exit", "assert", "error", "call",
             "returned"}
  /\ score \in Nat
  /\ subset \in 0..Len(_subset)
  /\ Len(text) <= MaxLen \/ pc \in {"call", "returned", "error"}

(***************************************************************************)
(* The matcher on its own: is_correct called on a Game whose image, text   *)
(* buffer and solution map are drawn from the sets below.                  *)
(***************************************************************************)
RECURSIVE Strings(_, _)
\* the strings over an alphabet up to a length
Strings(alphabet, n) ==
  IF n = 0
  THEN {<< >>}
  ELSE LET shorter == Strings(alphabet, n - 1)
       IN  shorter \cup {Append(t, c) : t \in shorter, c \in alphabet}

BLUE_JAY_PNG == << "b", "l", "u", "e", "-", "j", "a", "y", ".", "p", "n", "g" >>

CAT_PNG == << "c", "a", "t", ".", "p", "n", "g" >>

\* {"cat": ["cat", "kitty"]}
CatMap ==
  << "c", "a", "t" >> :> << << "c", "a", "t" >>, << "k", "i", "t", "t", "y" >> >>

MatchImages ==
  {create_img_obj(f) : f \in {BLUE_JAY_PNG, CAT_PNG, AllFiles[1], AllFiles[3],
                              AllFiles[4]}}

ExampleTexts ==
  { << "B", "l", "u", "e", " ", "J", "a", "y" >>,
    << "b", "l", "u", "e", "j", "a", "y" >>,
    << "b", "l", "u", "e", "_", "j", "a", "y" >>,
    << "B", "l", "u", "e", "-", "J", "a", "y" >>,
    << "b", "l", "u", "e", " ", "-", " ", "j", "a", "y" >>,
    << "k", "i", "t", "t", "y" >>,
    << "K", "I", "T", "T", "Y" >>,
    << "k", "i", "t", " ", "t", "y" >>,
    << "c", "a", "t" >> }

MatchTexts == ExampleTexts \cup Strings({"a", "A", " ", "_"}, MaxLen)

\* the entry lists of the generated maps: up to two answers
EntryLists ==
  LET answers == Strings({"a", "A", " "}, MaxEntryLen)
  IN  {<< >>} \cup {<< x >> : x \in answers}
      \cup {<< x, y >> : x \in answers, y \in answers}

\* the maps tried for an image: its entry list, or a map without its key
MatchMaps(image) ==
  {lower(image.name) :> l : l \in EntryLists} \cup {CatMap}

InitMatch ==
  /\ pc = "call"
  /\ img \in MatchImages
  /\ text \in MatchTexts
  /\ \/ has_solmap = FALSE /\ sol_map = NoMap
     \/ has_solmap = TRUE /\ sol_map \in MatchMaps(img)
  /\ args = [directory |-> [files |-> << >>, has_sol_map |-> has_solmap,
                            sol_map |-> sol_map],
             subset_size |-> 1, no_replacement |-> FALSE]
  /\ image_files = << >>
  /\ _subset = << img >>
  /\ subset = 1
  /\ subset_size = 1
  /\ score = 0
  /\ reveal = FALSE
  /\ select_subset = "select_subset_with_rep"
  /\ seen = {}
  /\ last = Last("none", FALSE, "none")
  /\ log = NoLog

\* one call of self.is_correct(): its verdict is kept in last.correct
is_correct_call ==
  /\ pc = "call"
  /\ IF KeyError(img, has_solmap, sol_map)
     THEN /\ pc' = "error"
          /\ last' = Last("is_correct", FALSE, "none")
     ELSE /\ pc' = "returned"
          /\ last' = Last("is_correct",
                          is_correct(text, img, has_solmap, sol_map), "none")
  /\ UNCHANGED << args, image_files, has_solmap, sol_map, _subset, subset,
                  subset_size, score, reveal, text, img, select_subset, seen,
                  log >>

NextMatch == is_correct_call

SpecMatch == InitMatch /\ [][NextMatch]_vars

(***************************************************************************)
(* Vocabulary of the properties.                                           *)
(***************************************************************************)
\* the images of the directory
AllImages ==
  {create_img_obj(f) : f \in SetOf(SelectSeq(listdir(args.directory), IsPng))}

\* the images still in the pool
Pool == {create_img_obj(f) : f \in SetOf(image_files)}

\* the step is a handled event that called next_image
Advances == pc = "run" /\ last'.branch \in {"return", "text"} /\ last'.adv # "none"

\* the generator has yielded every image: the next next() is the sentinel
AtLastImage == subset = Len(_subset)

\* the score next_image meets in this step
ScoreAtAdvance == IF last'.correct THEN score + 1 ELSE score

(***************************************************************************)
(* C1: when the quiz advances past the last image of a pass with           *)
(* score < subset_size, the score becomes 0 and the next pass runs over    *)
(* the same set of images, starting on the first image of the reshuffled   *)
(* list; no subset is selected and the pool is unchanged.  After startup   *)
(* a subset is selected (or requested) only when a pass ended with         *)
(* score = subset_size.                                                    *)
(***************************************************************************)
C1_ImperfectPassRestarts ==
  [][ /\ (Advances /\ AtLastImage /\ ScoreAtAdvance < subset_size)
         => /\ last'.adv = "restart"
            /\ pc' = "run"
            /\ score' = 0
            /\ SetOf(_subset') = SetOf(_subset)
            /\ Len(_subset') = Len(_subset)
            /\ subset' = 1
            /\ img' = _subset'[1]
            /\ image_files' = image_files
            /\ seen' = seen
            /\ subset_size' = subset_size
      /\ (pc = "run" /\ (last'.adv \in {"new", "exit"} \/ seen' # seen
                         \/ image_files' # image_files))
         => /\ Advances
            /\ AtLastImage
            /\ ScoreAtAdvance = subset_size
    ]_vars

\* a pass of at least two images was restarted after a miss
C1_Witness ==
  /\ pc = "run"
  /\ last.adv = "restart"
  /\ subset_size >= 2
  /\ score = 0
  /\ args.no_replacement

(***************************************************************************)
(* C2 as stated: when the quiz advances past the last image of a pass      *)
(* with score = subset_size, a new subset is drawn by the policy chosen    *)
(* at startup and the quiz continues on the first image of it.             *)
(***************************************************************************)
\* the step drew the new subset the way the policy of the command line does
DrawnByPolicy ==
  /\ select_subset = IF args.no_replacement THEN "select_subset_no_rep"
                                            ELSE "select_subset_with_rep"
  /\ Cardinality(SetOf(_subset')) = Len(_subset')
  /\ seen' = seen \cup SetOf(_subset)
  /\ IF args.no_replacement
     THEN /\ Len(_subset') = (IF Len(image_files) < subset_size
                              THEN Len(image_files) ELSE subset_size)
          /\ subset_size' = Len(_subset')
          /\ SetOf(_subset') \subseteq Pool
          /\ Pool' = Pool \ SetOf(_subset')
          /\ Len(image_files') = Len(image_files) - Len(_subset')
     ELSE /\ Len(_subset') = subset_size
          /\ subset_size' = subset_size
          /\ SetOf(_subset') \subseteq Pool
          /\ image_files' = image_files

ContinuesOnNewSubset ==
  /\ pc' = "run"
  /\ last'.adv = "new"
  /\ DrawnByPolicy
  /\ subset' = 1
  /\ img' = _subset'[1]

C2_PerfectPassDrawsSubset ==
  [][ (Advances /\ AtLastImage /\ ScoreAtAdvance = subset_size)
      => ContinuesOnNewSubset ]_vars

(***************************************************************************)
(* C2 amended: when the quiz advances past the last image of a pass with   *)
(* score = subset_size, the policy chosen at startup is asked for a new    *)
(* subset: it draws one and the quiz continues on its first image, except  *)
(* that under --no-replacement with an empty pool the process exits.       *)
(***************************************************************************)
C2_PerfectPassDrawsSubsetOrExits ==
  [][ (Advances /\ AtLastImage /\ ScoreAtAdvance = subset_size)
      => IF args.no_replacement /\ Len(image_files) = 0
         THEN /\ pc' = "exit"
              /\ last'.adv = "exit"
              /\ select_subset = "select_subset_no_rep"
              /\ _subset' = _subset
              /\ img' = img
         ELSE ContinuesOnNewSubset ]_vars

\* a perfect pass under --no-replacement was followed by a second subset
C2_Witness ==
  /\ pc = "run"
  /\ last.branch \in {"return", "text"}
  /\ last.adv = "new"
  /\ args.no_replacement
  /\ seen # {}
  /\ subset = 1

(***************************************************************************)
(* C3 as stated: in the Showing state a submit with a buffer that does     *)
(* not match sets the reveal flag and leaves the score unchanged; a        *)
(* following submit, whatever the buffer holds then, advances to the next  *)
(* image and leaves the score unchanged.                                   *)
(***************************************************************************)
\* the step handles Enter and the matcher returns
Submits ==
  pc = "run" /\ last'.branch = "return" /\ ~KeyError(img, has_solmap, sol_map)

Matches == is_correct(text, img, has_solmap, sol_map)

SetsReveal ==
  /\ reveal'
  /\ score' = score
  /\ last'.adv = "none"
  /\ UNCHANGED << pc, text, img, _subset, subset, subset_size, image_files >>

C3_RevealThenAdvanceKeepsScore ==
  [][ /\ (Submits /\ ~reveal /\ ~Matches) => SetsReveal
      /\ (Submits /\ reveal)
         => /\ last'.adv \in {"next", "restart", "new"}
            /\ pc' = "run"
            /\ score' = score
    ]_vars

(***************************************************************************)
(* C3 amended: in the Showing state a submit with a buffer that does not   *)
(* match sets the reveal flag and leaves the score unchanged; a following  *)
(* submit leaves the image, whatever the buffer holds then: it clears the  *)
(* buffer and the reveal flag and advances to the next image, or past the  *)
(* last image of the pass it restarts the pass or asks for a new subset.   *)
(* The score is unchanged only if the buffer still does not match and the  *)
(* pass goes on; a buffer that matches by then is scored first             *)
(* (score + 1), and an advance past the last image of the pass resets the  *)
(* score to 0 (or exits when the no-replacement pool is empty).            *)
(***************************************************************************)
C3_RevealThenAdvance ==
  [][ /\ (Submits /\ ~reveal /\ ~Matches) => SetsReveal
      /\ (Submits /\ reveal)
         => /\ last'.adv # "none"
            /\ last'.correct = Matches
            /\ IF AtLastImage
               THEN \/ /\ pc' = "run"
                       /\ last'.adv = (IF ScoreAtAdvance < subset_size
                                       THEN "restart" ELSE "new")
                       /\ score' = 0
                       /\ text' = << >>
                       /\ ~reveal'
                       /\ subset' = 1
                    \/ /\ pc' = "exit"
                       /\ last'.adv = "exit"
                       /\ Matches
                       /\ score' = score + 1
               ELSE /\ pc' = "run"
                    /\ last'.adv = "next"
                    /\ score' = (IF Matches THEN score + 1 ELSE score)
                    /\ text' = << >>
                    /\ ~reveal'
                    /\ subset' = subset + 1
                    /\ img' = _subset[subset + 1]
                    /\ _subset' = _subset
    ]_vars

\* a revealed image was left by a submit that kept a score of at least one
C3_Witness ==
  /\ pc = "run"
  /\ last.branch = "return"
  /\ ~last.correct
  /\ last.adv = "next"
  /\ score >= 1
  /\ ~reveal

(***************************************************************************)
(* C4: under --no-replacement no image belongs to two subsets: the         *)
(* current subset, the subsets drawn before it and the pool are pairwise   *)
(* disjoint, without duplicates, and together they are the images of the   *)
(* directory; an image never returns to the pool.                          *)
(***************************************************************************)
C4_NoRepPartition ==
  /\ [] ( (args.no_replacement /\ pc # "start")
          => /\ SetOf(_subset) \cap seen = {}
             /\ SetOf(_subset) \cap Pool = {}
             /\ seen \cap Pool = {}
             /\ SetOf(_subset) \cup seen \cup Pool = AllImages
             /\ Cardinality(SetOf(_subset)) = Len(_subset)
             /\ Cardinality(Pool) = Len(image_files) )
  /\ [][ (args.no_replacement /\ pc # "start")
         => /\ Pool' \subseteq Pool
            /\ Pool' = Pool \ SetOf(_subset')
            /\ seen \subseteq seen' ]_vars

\* a second subset was drawn from the pool and images are still left in it
C4_Witness ==
  /\ args.no_replacement
  /\ pc = "run"
  /\ seen # {}
  /\ _subset # << >>
  /\ image_files # << >>

(***************************************************************************)
(* C5: under the with-replacement policy every subset drawn holds          *)
(* subset_size pairwise-distinct images of the pool, and no selection      *)
(* changes the pool of image files.  (That an image of an earlier subset   *)
(* may come again in a later one is what C5_Witness reaches.)              *)
(***************************************************************************)
C5_WithRepDistinctAndPoolKept ==
  (~args.no_replacement /\ pc \notin {"start", "assert"})
  => /\ image_files = SelectSeq(listdir(args.directory), IsPng)
     /\ Cardinality(SetOf(_subset)) = Len(_subset)
     /\ SetOf(_subset) \subseteq Pool
     /\ pc = "run" => Len(_subset) = subset_size

\* the current subset holds an image of an earlier subset and one that is new
C5_Witness ==
  /\ ~args.no_replacement
  /\ pc = "run"
  /\ SetOf(_subset) \cap seen # {}
  /\ SetOf(_subset) \ seen # {}
  /\ Len(_subset) >= 2

(***************************************************************************)
(* C6 as stated: for every directory with N images and every requested     *)
(* subset size S <= N, under either policy, startup yields a subset of     *)
(* exactly min(S, N) distinct images and the quiz starts in Showing on     *)
(* the first image of it, with empty buffer, reveal unset and score 0.     *)
(***************************************************************************)
NImages == Len(SelectSeq(listdir(args.directory), IsPng))

Min(a, b) == IF a < b THEN a ELSE b

StartsShowing ==
  /\ pc = "run"
  /\ Len(_subset) = Min(args.subset_size, NImages)
  /\ Cardinality(SetOf(_subset)) = Len(_subset)
  /\ SetOf(_subset) \subseteq AllImages
  /\ subset = 1
  /\ img = _subset[1]
  /\ text = << >>
  /\ ~reveal
  /\ score = 0

C6_StartupSubset ==
  (last.branch = "init" /\ args.subset_size <= NImages) => StartsShowing

(***************************************************************************)
(* C6 amended: for every directory with N images and every requested       *)
(* subset size S with 1 <= S <= N, under either policy, startup yields a   *)
(* subset of exactly min(S, N) distinct images and the quiz starts in      *)
(* Showing on the first image of it, with empty buffer, reveal unset and   *)
(* score 0.                                                                *)
(***************************************************************************)
C6_StartupSubsetPositiveSize ==
  (last.branch = "init" /\ 1 <= args.subset_size /\ args.subset_size <= NImages)
  => StartsShowing

\* startup drew two or more images and shows the first
C6_Witness ==
  /\ last.branch = "init"
  /\ pc = "run"
  /\ args.subset_size >= 2
  /\ Len(_subset) = args.subset_size
  /\ img = _subset[1]

(***************************************************************************)
(* C7 as stated: without a solution map the matcher is case-insensitive    *)
(* and space-insensitive against the base name: for blue-jay.png the       *)
(* texts `Blue Jay` and `bluejay` are accepted and `blue_jay` is not.      *)
(***************************************************************************)
normalized(s) == lower(remove_spaces(s))

\* a call without solution map has returned
ReturnedNoMap == pc = "returned" /\ ~has_solmap

\* texts that differ only in case and spaces get the same verdict, and the
\* base name itself is accepted
CaseAndSpaceInsensitive ==
  /\ \A t \in MatchTexts :
       normalized(t) = normalized(text)
       => is_correct(t, img, FALSE, NoMap) = last.correct
  /\ is_correct(img.name, img, FALSE, NoMap)

Typed(t) == img = create_img_obj(BLUE_JAY_PNG) /\ text = t

C7_BlueJayExamples ==
  ReturnedNoMap
  => /\ CaseAndSpaceInsensitive
     /\ Typed(<< "B", "l", "u", "e", " ", "J", "a", "y" >>) => last.correct
     /\ Typed(<< "b", "l", "u", "e", "j", "a", "y" >>) => last.correct
     /\ Typed(<< "b", "l", "u", "e", "_", "j", "a", "y" >>) => ~last.correct

(***************************************************************************)
(* C7 amended: without a solution map the matcher is case-insensitive and  *)
(* space-insensitive against the base name, and every other character of   *)
(* the name, the hyphen included, has to be typed: for blue-jay.png the    *)
(* texts `Blue-Jay` and `blue - jay` are accepted, and `Blue Jay`,         *)
(* `bluejay` and `blue_jay` are not.                                       *)
(***************************************************************************)
C7_BlueJayHyphenKept ==
  ReturnedNoMap
  => /\ CaseAndSpaceInsensitive
     /\ last.correct <=> normalized(text) = normalized(img.name)
     /\ Typed(<< "B", "l", "u", "e", "-", "J", "a", "y" >>) => last.correct
     /\ Typed(<< "b", "l", "u", "e", " ", "-", " ", "j", "a", "y" >>)
        => last.correct
     /\ Typed(<< "B", "l", "u", "e", " ", "J", "a", "y" >>) => ~last.correct
     /\ Typed(<< "b", "l", "u", "e", "j", "a", "y" >>) => ~last.correct
     /\ Typed(<< "b", "l", "u", "e", "_", "j", "a", "y" >>) => ~last.correct

\* `Blue-Jay` was typed for blue-jay.png and accepted
C7_Witness ==
  /\ ReturnedNoMap
  /\ Typed(<< "B", "l", "u", "e", "-", "J", "a", "y" >>)
  /\ last.correct

(***************************************************************************)
(* C8 as stated: with a solution map a text is accepted exactly when it    *)
(* equals an entry of the image character for character or equals one      *)
(* after both are lowercased and stripped of spaces; there are texts the   *)
(* exact rule accepts although their normalized form matches no entry;     *)
(* with {cat: [cat, kitty]} and image cat, `kitty`, `KITTY` and `kit ty`   *)
(* are accepted.                                                           *)
(***************************************************************************)
\* a call with a solution map that holds the image's key has returned
ReturnedWithMap == pc = "returned" /\ has_solmap

ExactIn(t, sols) == \E i \in 1..Len(sols) : sols[i] = t

NormalizedIn(t, sols) ==
  \E i \in 1..Len(sols) : normalized(sols[i]) = normalized(t)

Entries == sol_map[lower(img.name)]

AcceptedIffExactOrNormalized ==
  last.correct <=> (ExactIn(text, Entries) \/ NormalizedIn(text, Entries))

CatExamples ==
  (sol_map = CatMap /\ img = create_img_obj(CAT_PNG)
   /\ text \in { << "k", "i", "t", "t", "y" >>, << "K", "I", "T", "T", "Y" >>,
                 << "k", "i", "t", " ", "t", "y" >> })
  => last.correct

C8_ExactRuleAcceptsMore ==
  ReturnedWithMap
  => /\ AcceptedIffExactOrNormalized
     /\ CatExamples
     /\ \E t \in MatchTexts, sols \in EntryLists \cup {CatMap[<< "c", "a", "t" >>]} :
          ExactIn(t, sols) /\ ~NormalizedIn(t, sols)

(***************************************************************************)
(* C8 amended: with a solution map a text is accepted exactly when it      *)
(* equals an entry of the image character for character or equals one      *)
(* after both are lowercased and stripped of spaces; a text that equals    *)
(* an entry character for character also equals it after normalization,   *)
(* so the exact rule accepts no text the normalized rule rejects; with     *)
(* {cat: [cat, kitty]} and image cat, `kitty`, `KITTY` and `kit ty` are    *)
(* accepted.                                                               *)
(***************************************************************************)
C8_ExactRuleAcceptsNoMore ==
  ReturnedWithMap
  => /\ AcceptedIffExactOrNormalized
     /\ CatExamples
     /\ ExactIn(text, Entries) => NormalizedIn(text, Entries)
     /\ last.correct <=> NormalizedIn(text, Entries)

\* `KITTY` was typed for the image cat under {cat: [cat, kitty]} and accepted
C8_Witness ==
  /\ ReturnedWithMap
  /\ sol_map = CatMap
  /\ img = create_img_obj(CAT_PNG)
  /\ text = << "K", "I", "T", "T", "Y" >>
  /\ ~ExactIn(text, Entries)
  /\ last.correct

(***************************************************************************)
(* C9: a key event whose character is in [A-Za-z0-9 -] appends the         *)
(* character to the buffer, and if the buffer then matches, the answer is  *)
(* scored (score + 1) and the quiz advances without passing through        *)
(* Revealed; a key event with any other character leaves the quiz state    *)
(* unchanged.                                                              *)
(***************************************************************************)
\* the set the specification names: letters, digits, space, hyphen
SpecChar(c) ==
  /\ c \in Printable
  /\ \/ ord[c] \in ord["A"]..ord["Z"]
     \/ ord[c] \in ord["a"]..ord["z"]
     \/ ord[c] \in ord["0"]..ord["9"]
     \/ c = " "
     \/ c = "-"

\* the step is the handling of this event
Handles(e) ==
  \/ OnQuit(e) \/ OnReturn(e) \/ OnDelete(e) \/ OnBackspace(e)
  \/ OnText(e) \/ OnOther(e)

QuizUnchanged ==
  UNCHANGED << pc, image_files, _subset, subset, subset_size, score, reveal,
               text, img, select_subset >>

C9_CharacterInput ==
  [][ \A e \in Events :
        (e.type = "KEYDOWN" /\ e.key = "K_char" /\ Handles(e))
        => IF SpecChar(e.unicode[1])
           THEN \/ KeyError(img, has_solmap, sol_map)
                \/ IF is_correct(text \o e.unicode, img, has_solmap, sol_map)
                   THEN /\ last'.correct
                        /\ last'.adv # "none"
                        /\ last'.adv = "next" => score' = score + 1
                        /\ pc' = "run" => ~reveal'
                   ELSE /\ text' = text \o e.unicode
                        /\ UNCHANGED << pc, image_files, _subset, subset,
                                        subset_size, score, reveal, img >>
           ELSE QuizUnchanged
    ]_vars

(***************************************************************************)
(* C10: once the reveal flag is set for the current image, no input event  *)
(* increments the score or edits the text buffer for that image: every     *)
(* event leaves the quiz state unchanged (or quits) or advances to the     *)
(* next image without scoring.                                             *)
(***************************************************************************)
C10_RevealedOnlyAdvances ==
  [][ (pc = "run" /\ reveal)
      => \/ QuizUnchanged
         \/ pc' = "quit" /\ UNCHANGED << score, text, img, reveal >>
         \/ /\ last'.adv # "none"
            /\ ~last'.correct
            /\ score' <= score
    ]_vars

(***************************************************************************)
(* C11 as stated: on Enter, if the buffer matches the answer the score     *)
(* increments by exactly one and the quiz advances, whatever the reveal    *)
(* flag; otherwise, if the reveal flag is set, the quiz advances and the   *)
(* score after the event equals the score before it; otherwise only the    *)
(* reveal flag changes (to set).                                           *)
(***************************************************************************)
\* the step handles Enter
HandlesReturn == pc = "run" /\ last'.branch = "return"

\* the answer is scored by exactly one and next_image is called with it
ScoredAndAdvanced ==
  /\ last'.correct
  /\ last'.adv # "none"
  /\ last'.adv = "next" => score' = score + 1
  /\ last'.adv = "exit" => score' = score + 1
  /\ last'.adv \in {"restart", "new"} => score' = 0

C11_SubmitPriority ==
  [][ (HandlesReturn /\ ~KeyError(img, has_solmap, sol_map))
      => IF Matches
         THEN ScoredAndAdvanced
         ELSE IF reveal
         THEN /\ ~last'.correct
              /\ last'.adv # "none"
              /\ score' = score
         ELSE SetsReveal
    ]_vars

(***************************************************************************)
(* C11 amended: on Enter, if the buffer matches the answer the score       *)
(* increments by exactly one and the quiz advances, whatever the reveal    *)
(* flag; otherwise, if the reveal flag is set, the quiz advances without   *)
(* scoring, and the score after the event equals the score before it       *)
(* unless the advance passes the last image of the pass, which resets the  *)
(* score to 0; otherwise only the reveal flag changes (to set).  (When the *)
(* solution map has no entry for the image, Enter raises KeyError          *)
(* instead.)                                                               *)
(***************************************************************************)
C11_SubmitPriorityWithReset ==
  [][ HandlesReturn
      => IF KeyError(img, has_solmap, sol_map)
         THEN pc' = "error" /\ UNCHANGED << score, reveal, text, img >>
         ELSE IF Matches
         THEN ScoredAndAdvanced
         ELSE IF reveal
         THEN /\ ~last'.correct
              /\ last'.adv \in {"next", "restart"}
              /\ pc' = "run"
              /\ last'.adv = "next" <=> ~AtLastImage
              /\ score' = (IF AtLastImage THEN 0 ELSE score)
              /\ ~reveal'
              /\ text' = << >>
         ELSE SetsReveal
    ]_vars

\* Enter on a revealed, unmatched last image of a pass that had scored:
\* the pass restarted and the score went back to 0
C11_Witness ==
  /\ pc = "run"
  /\ last.branch = "return"
  /\ ~last.correct
  /\ last.adv = "restart"
  /\ score = 0
  /\ subset = 1
  /\ subset_size >= 2

(***************************************************************************)
(* C12 as stated: under --no-replacement the process exits through the     *)
(* pool-exhausted path only when a new subset is requested while the pool  *)
(* is empty, that is, only after every image of the directory has been     *)
(* placed in some subset and the last subset was completed with a perfect  *)
(* pass; with replacement the pool-exhausted exit is unreachable and only  *)
(* the quit action leaves the loop with status 0.                          *)
(***************************************************************************)
\* the process ended by the exit() of select_subset_no_rep
PoolExhaustedExit == pc = "exit"

\* every image of the directory has been placed in a subset
EveryImagePlaced == seen \cup SetOf(_subset) = AllImages

\* the last handled event was the correct answer that completed the pass
LastPassPerfect ==
  /\ last.branch \in {"return", "text"}
  /\ last.correct
  /\ last.adv = "exit"
  /\ _subset # << >>
  /\ subset = Len(_subset)
  /\ score = subset_size

C12_PoolExhaustedExit ==
  /\ (PoolExhaustedExit /\ args.no_replacement)
     => /\ image_files = << >>
        /\ EveryImagePlaced
        /\ LastPassPerfect
  /\ ~args.no_replacement => ~PoolExhaustedExit
  /\ (~args.no_replacement /\ pc \in {"quit", "exit"}) => last.branch = "quit"

(***************************************************************************)
(* C12 amended: under --no-replacement the process exits through the       *)
(* pool-exhausted path only when a new subset is requested while the pool  *)
(* is empty: either at startup, when the directory holds no image (the     *)
(* subset size is then 0 or less and no subset was ever selected), or      *)
(* after every image of the directory has been placed in some subset and   *)
(* the last subset was completed with a perfect pass; with replacement the *)
(* pool-exhausted exit is unreachable and only the quit action leaves the  *)
(* loop with status 0.                                                     *)
(***************************************************************************)
C12_PoolExhaustedExitOrEmptyDirectory ==
  /\ (PoolExhaustedExit /\ args.no_replacement)
     => /\ image_files = << >>
        /\ EveryImagePlaced
        /\ IF last.branch = "init"
           THEN /\ NImages = 0
                /\ args.subset_size <= 0
                /\ _subset = << >>
                /\ seen = {}
                /\ last.adv = "exit"
           ELSE LastPassPerfect
  /\ ~args.no_replacement => ~PoolExhaustedExit
  /\ (~args.no_replacement /\ pc \in {"quit", "exit"}) => last.branch = "quit"

\* the pool-exhausted exit after more than one subset
C12_Witness ==
  /\ PoolExhaustedExit
  /\ args.no_replacement
  /\ LastPassPerfect
  /\ seen # {}

(***************************************************************************)
(* C13: all failures are fatal at startup: once the frame loop has         *)
(* started, no sequence of input events drives the program into an error   *)
(* or abort; the only ways out of the loop are the quit action and the     *)
(* pool-exhausted exit.                                                    *)
(***************************************************************************)
\* the process was aborted by an uncaught exception
Aborted == pc \in {"error", "assert"}

\* the frame loop has handled at least one event
LoopStarted == last.branch \notin {"none", "init"}

C13_NoFailureAfterStartup ==
  /\ Aborted => ~LoopStarted
  /\ (LoopStarted /\ pc # "run") => pc \in {"quit", "exit"}

(***************************************************************************)
(* C14: when the requested subset size exceeds the number of images of the *)
(* directory, startup fails with a fatal assertion before any subset is    *)
(* selected and before the frame loop: no image is removed from the pool   *)
(* and no quiz state is reached; the assertion fails in no other case.     *)
(***************************************************************************)
\* __init__ has run (and the process may have gone on since)
Started == pc # "start"

\* nothing of the quiz exists: no policy bound, no subset, no image shown
NoQuizState ==
  /\ select_subset = "unbound"
  /\ _subset = << >>
  /\ subset = 0
  /\ img = NoImage
  /\ seen = {}
  /\ score = 0
  /\ text = << >>
  /\ ~reveal

C14_SubsetSizeAssertion ==
  /\ (Started /\ args.subset_size > NImages)
     => /\ pc = "assert"
        /\ last = Last("init", FALSE, "none")
        /\ image_files = SelectSeq(listdir(args.directory), IsPng)
        /\ NoQuizState
  /\ pc = "assert" => args.subset_size > NImages

\* the assertion failed on a directory that holds images
C14_Witness ==
  /\ pc = "assert"
  /\ NImages >= 1
  /\ args.subset_size = NImages + 1

(***************************************************************************)
(* C15: --no-replacement shrinking: when a new subset is requested and the *)
(* pool holds k images with 0 < k < subset_size, subset_size is set to k,  *)
(* the new subset is exactly all k remaining images, the pool becomes      *)
(* empty, and from then on a perfect pass needs score == k: the pass on    *)
(* the shrunk subset ends the quiz with k correct answers and restarts     *)
(* with fewer.                                                             *)
(***************************************************************************)
\* the step asks for a new subset: a correct answer completed a perfect pass
RequestsNewSubset ==
  /\ Advances
  /\ AtLastImage
  /\ ScoreAtAdvance = subset_size

\* the subset was shrunk to the rest of the pool
Shrunk ==
  /\ args.no_replacement
  /\ pc = "run"
  /\ 0 < subset_size
  /\ subset_size < args.subset_size

C15_NoRepShrinks ==
  /\ [][ (RequestsNewSubset /\ args.no_replacement
            /\ 0 < Len(image_files) /\ Len(image_files) < subset_size)
         => /\ pc' = "run"
            /\ last'.adv = "new"
            /\ subset_size' = Len(image_files)
            /\ SetOf(_subset') = Pool
            /\ Len(_subset') = Len(image_files)
            /\ image_files' = << >>
            /\ score' = 0
       ]_vars
  /\ [][ (Shrunk /\ Advances /\ AtLastImage)
         => /\ subset_size' = subset_size
            /\ IF ScoreAtAdvance = subset_size
               THEN pc' = "exit" /\ last'.adv = "exit"
               ELSE pc' = "run" /\ last'.adv = "restart" /\ SetOf(_subset') = SetOf(_subset)
       ]_vars

\* the quiz ended after a perfect pass on a shrunk subset
C15_Witness ==
  /\ pc = "exit"
  /\ args.no_replacement
  /\ 0 < subset_size
  /\ subset_size < args.subset_size
  /\ Len(_subset) = subset_size
  /\ score = subset_size

(***************************************************************************)
(* C16: in every reachable state after startup the number of images in the *)
(* current subset equals subset_size, subset_size never exceeds the number *)
(* of images the directory had at startup, and subset_size never           *)
(* increases.                                                              *)
(***************************************************************************)
\* __init__ returned: the frame loop runs or has been left
AfterStartup == pc \in {"run", "quit"} \/ LoopStarted

C16_SubsetSize ==
  /\ [] ( AfterStartup
          => /\ Len(_subset) = subset_size
             /\ Cardinality(SetOf(_subset)) = subset_size
             /\ subset_size <= NImages )
  /\ [][ pc # "start" => subset_size' <= subset_size ]_vars
  /\ [][ pc = "start" => subset_size' <= args.subset_size ]_vars

\* a subset smaller than the requested size, after an earlier full one
C16_Witness ==
  /\ pc = "run"
  /\ last.branch \in {"return", "text"}
  /\ Len(_subset) = subset_size
  /\ subset_size < args.subset_size
  /\ seen # {}

(***************************************************************************)
(* The perfect player: --no-replacement, 1 <= subset_size <= number of     *)
(* images, and a typist who answers every displayed image correctly at the *)
(* first attempt: each key extends the buffer towards an accepted answer,  *)
(* or it is Enter on a buffer that matches.  The history of draws and      *)
(* displays is kept.                                                       *)
(***************************************************************************)
\* the characters of the typist that the handler appends to the buffer
ValidTyped == {c \in TypedChars : match(<< c >>)}

\* the buffer t can be extended (by nothing, too) to an accepted answer
CanFinish(t, image, hs, sm) ==
  \E u \in Strings(ValidTyped, MaxLen - Len(t)) : is_correct(t \o u, image, hs, sm)

\* every image of the directory has an answer the typist can type
Answerable(d) ==
  \A f \in SetOf(SelectSeq(listdir(d), IsPng)) :
    /\ ~KeyError(create_img_obj(f), exists_sol_map(d), _get_sol_map(d))
    /\ CanFinish(<< >>, create_img_obj(f), exists_sol_map(d), _get_sol_map(d))

InitPerfect ==
  /\ InitGame
  /\ args.no_replacement
  /\ 1 <= args.subset_size
  /\ args.subset_size <= NImages
  /\ Answerable(args.directory)
  /\ log = [on |-> TRUE, drawn |-> 0, shown |-> << >>]

\* a key that completes the answer or leaves it within reach
PerfectText ==
  \E event \in Events :
    /\ OnText(event)
    /\ last'.correct \/ CanFinish(text', img, has_solmap, sol_map)

\* Enter on a buffer that matches
PerfectReturn ==
  \E event \in Events :
    /\ OnReturn(event)
    /\ last'.correct

NextPerfect == GameInit \/ PerfectText \/ PerfectReturn

\* the frame loop keeps polling and the player keeps answering
SpecPerfect == InitPerfect /\ [][NextPerfect]_vars /\ WF_vars(NextPerfect)

CeilDiv(n, d) == (n + d - 1) \div d

(***************************************************************************)
(* C17: under --no-replacement with N images and subset size S,            *)
(* 1 <= S <= N, if every displayed image is answered correctly without a   *)
(* miss, the process eventually exits through the pool-exhausted path,     *)
(* after exactly ceil(N / S) subsets were drawn and every one of the N     *)
(* images was displayed exactly once.                                      *)
(***************************************************************************)
C17_PerfectPlayExhaustsPool ==
  /\ <>(pc = "exit")
  /\ [] ( pc = "exit"
          => /\ log.drawn = CeilDiv(NImages, args.subset_size)
             /\ Len(log.shown) = NImages
             /\ SetOf(log.shown) = AllImages )
  /\ [] ( /\ pc \in {"start", "run", "exit"}
          /\ Cardinality(SetOf(log.shown)) = Len(log.shown)
          /\ log.drawn <= CeilDiv(NImages, args.subset_size) )

\* the exit after two subsets, the second one shrunk to the rest of the pool
C17_Witness ==
  /\ pc = "exit"
  /\ log.on
  /\ log.drawn = 2
  /\ Len(log.shown) = 3
  /\ subset_size < args.subset_size

(***************************************************************************)
(* C18: score accounting: after every completely handled input event the   *)
(* score is the number of images of the current pass that were left        *)
(* through a correct answer: it is 0 when the first image of a pass is     *)
(* shown, 0 <= score <= images already passed in this pass < subset_size,  *)
(* and it increases by at most one per displayed image (by one exactly     *)
(* when the image is left through a correct answer).                       *)
(***************************************************************************)
\* the images of the current pass that were displayed and left
Passed == subset - 1

C18_ScoreAccounting ==
  /\ [] ( pc = "run"
          => /\ 0 <= score
             /\ score <= Passed
             /\ Passed < subset_size
             /\ Passed = 0 => score = 0 )
  /\ [][ (pc = "start" /\ pc' = "run") => (score' = 0 /\ subset' = 1) ]_vars
  /\ [][ (pc = "run" /\ pc' = "run")
         => IF last'.adv = "none"
            THEN score' = score /\ subset' = subset /\ img' = img
            ELSE IF last'.adv = "next"
            THEN /\ subset' = subset + 1
                 /\ score' = (IF last'.correct THEN score + 1 ELSE score)
            ELSE /\ last'.adv \in {"restart", "new"}
                 /\ subset' = 1
                 /\ score' = 0
       ]_vars

\* two images of the pass were left, one of them through a correct answer
C18_Witness ==
  /\ pc = "run"
  /\ Passed = 2
  /\ score = 1

(***************************************************************************)
(* C19: single-pass rounds: within one pass each image of the subset       *)
(* becomes the current image exactly once before the pass completes, the   *)
(* pass completes after exactly subset_size advances, and in every state   *)
(* after startup the current image is a member of the current subset.      *)
(***************************************************************************)
\* the images the generator of the current pass has yielded, in order
Yielded == SubSeq(_subset, 1, subset)

C19_SinglePassRounds ==
  /\ [] ( AfterStartup
          => /\ 1 <= subset
             /\ subset <= Len(_subset)
             /\ img = _subset[subset]
             /\ img \in SetOf(_subset)
             /\ Len(_subset) = subset_size
             /\ Cardinality(SetOf(Yielded)) = subset )
  /\ [][ (pc = "run" /\ pc' = "run")
         => IF last'.adv = "none"
            THEN UNCHANGED << img, _subset, subset >>
            ELSE IF last'.adv = "next"
            THEN /\ ~AtLastImage
                 /\ _subset' = _subset
                 /\ subset' = subset + 1
                 /\ img' \notin SetOf(Yielded)
            ELSE /\ AtLastImage
                 /\ SetOf(Yielded) = SetOf(_subset)
                 /\ subset' = 1
                 /\ last'.adv = "restart" => SetOf(_subset') = SetOf(_subset)
       ]_vars
  /\ [][ (pc = "run" /\ pc' = "exit") => AtLastImage ]_vars

\* the last image of a pass of three is shown, after two advances
C19_Witness ==
  /\ pc = "run"
  /\ last.adv = "next"
  /\ subset = 3
  /\ AtLastImage

(***************************************************************************)
(* C20: with a solution map whose entries are lists of strings, the        *)
(* exact-match branch of is_correct is redundant: is_correct returns, for  *)
(* every buffer, image and map, what the check returns that only compares  *)
(* the normalized buffer with the normalized entries.                      *)
(***************************************************************************)
\* is_correct without `if self.text in sols: return True`
is_correct_normalized_only(self_text, self_img, self_has_solmap, self_sol_map) ==
  LET txt == lower(remove_spaces(self_text))
  IN  IF self_has_solmap
      THEN LET sols == self_sol_map[lower(self_img.name)]
           IN  \E i \in 1..Len(sols) : lower(remove_spaces(sols[i])) = txt
      ELSE txt = lower(remove_spaces(self_img.name))

C20_ExactBranchRedundant ==
  /\ pc = "returned"
     => last.correct = is_correct_normalized_only(text, img, has_solmap, sol_map)
  /\ (pc = "call" /\ ~KeyError(img, has_solmap, sol_map))
     => \A t \in MatchTexts :
          is_correct(t, img, has_solmap, sol_map)
            = is_correct_normalized_only(t, img, has_solmap, sol_map)

\* the exact-match branch returned True: the buffer is an entry as it stands,
\* with a capital or a space that normalization changes
C20_Witness ==
  /\ ReturnedWithMap
  /\ ExactIn(text, Entries)
  /\ normalized(text) # text
  /\ last.correct

====
